---- MODULE Spec2Model ----
(***************************************************************************)
(* Model of the dedup ledger (dd_collector/dedup.py, class DedupTracker)   *)
(* and of the chat polling flow that drives it (dd_collector/main.py,      *)
(* _process_group / _download_and_move_chat).                              *)
(*                                                                         *)
(* Python strings are sequences of one-character strings, so that key      *)
(* construction is real concatenation and key collisions are observable.   *)
(* The in-memory dict is a sequence of [k, v] items in insertion order.    *)
(* A file is [exists, content]; content is the sequence of pieces that     *)
(* json.dump has written so far: one per item, then the closing brace      *)
(* (the opening brace travels with the first piece).                       *)
(***************************************************************************)
EXTENDS Integers, Sequences, FiniteSets, TLC

VARIABLES
    pc,       \* position of the process: "start" (not running), "idle", or a step of _save
    data,     \* DedupTracker._data
    file,     \* the backing store, self._path
    tmp,      \* the temp file, self._path.with_suffix(".tmp")
    now,      \* time.time(), one tick per mutation
    call,     \* the tracker call in progress or last returned, with its outcome
    faults,   \* calls of _save that met an I/O failure so far
    crashes,  \* process kills so far
    called,   \* (group, filename) pairs passed to mark_downloaded by this process
    flow      \* position of _process_group

vars == <<pc, data, file, tmp, now, call, faults, crashes, called, flow>>

-----------------------------------------------------------------------------
(* Bounds of the model *)

MaxOps == 2
MaxFaults == 1
MaxCrashes == 1
MaxScan == 3
MaxCycles == 2
MaxDownloads == 2
MaxScrolls == 1

-----------------------------------------------------------------------------
(* Strings *)

None == <<"None">>
Empty == <<>>

Groups == {<<"A">>, <<"B">>}
PolledGroups == {<<"A">>}
Files == {<<"a">>}
Timestamps == {<<"9">>, <<"1", "0">>}
Dests == {<<"x">>}

DELIM == <<":", ":">>

_WATERMARK_PREFIX ==
    <<"_", "_", "w", "a", "t", "e", "r", "m", "a", "r", "k", "_", "_", ":", ":">>

-----------------------------------------------------------------------------
(* The in-memory dict *)

HasKey(d, k) == \E i \in 1..Len(d) : d[i].k = k

Get(d, k) == d[CHOOSE i \in 1..Len(d) : d[i].k = k].v

\* self._data.setdefault(key, value): an existing entry is kept
Put_setdefault(d, k, v) ==
    IF HasKey(d, k) THEN d ELSE Append(d, [k |-> k, v |-> v])

\* self._data = {key: value}: the dict is replaced, not updated
Put_replaces_dict(d, k, v) == <<[k |-> k, v |-> v]>>

\* self._data[key] = value
Put(d, k, v) ==
    IF HasKey(d, k)
    THEN [i \in 1..Len(d) |-> IF d[i].k = k THEN [k |-> k, v |-> v] ELSE d[i]]
    ELSE Append(d, [k |-> k, v |-> v])

-----------------------------------------------------------------------------
(* Keys *)

_key(group_name, file_name) == group_name \o DELIM \o file_name

\* the timestamp left out of the key
_chat_key_no_timestamp(group_name, file_name, msg_timestamp) ==
    group_name \o DELIM \o DELIM \o file_name

\* an unknown timestamp falls back to the legacy key
_chat_key_legacy_when_empty(group_name, file_name, msg_timestamp) ==
    IF msg_timestamp = Empty
    THEN group_name \o DELIM \o file_name
    ELSE group_name \o DELIM \o msg_timestamp \o DELIM \o file_name

\* the fields are joined by a single colon
_chat_key_single_colon(group_name, file_name, msg_timestamp) ==
    group_name \o <<":">> \o msg_timestamp \o <<":">> \o file_name

_chat_key(group_name, file_name, msg_timestamp) ==
    group_name \o DELIM \o msg_timestamp \o DELIM \o file_name

\* the group left out of the key: one watermark for all groups
_watermark_key_shared(group_name) == _WATERMARK_PREFIX

_watermark_key(group_name) == _WATERMARK_PREFIX \o group_name

-----------------------------------------------------------------------------
(* Lookups *)

is_downloaded(d, group_name, file_name) == HasKey(d, _key(group_name, file_name))

\* the legacy key is not consulted
is_downloaded_chat_no_fallback(d, group_name, file_name, msg_timestamp) ==
    HasKey(d, _chat_key(group_name, file_name, msg_timestamp))

is_downloaded_chat(d, group_name, file_name, msg_timestamp) ==
    IF HasKey(d, _chat_key(group_name, file_name, msg_timestamp))
    THEN TRUE
    ELSE HasKey(d, _key(group_name, file_name))

get_watermark(d, group_name) ==
    IF HasKey(d, _watermark_key(group_name))
    THEN LET entry == Get(d, _watermark_key(group_name))
         IN  IF "timestamp_str" \in DOMAIN entry THEN entry.timestamp_str ELSE None
    ELSE None

StartsWith(s, p) == Len(s) >= Len(p) /\ SubSeq(s, 1, Len(p)) = p

\* positions where "::" occurs in s
DelimAt(s) == {i \in 1..(Len(s) - 1) : SubSeq(s, i, i + 1) = DELIM}

Max(S) == CHOOSE x \in S : \A y \in S : y <= x

\* the suffix is returned whole, timestamp included
AfterLastDelim_keeps_timestamp(s) == s

\* s.rsplit("::", 1)[-1]
AfterLastDelim(s) == SubSeq(s, Max(DelimAt(s)) + 2, Len(s))

RECURSIVE get_downloaded_for_group(_, _)
get_downloaded_for_group(d, group_name) ==
    IF d = <<>>
    THEN <<>>
    ELSE LET prefix == group_name \o DELIM
             k == d[Len(d)].k
             rest == get_downloaded_for_group(SubSeq(d, 1, Len(d) - 1), group_name)
             suffix == SubSeq(k, Len(prefix) + 1, Len(k))
         IN  IF ~StartsWith(k, prefix) \/ StartsWith(k, _WATERMARK_PREFIX)
             THEN rest
             ELSE IF DelimAt(suffix) # {}
                  THEN Append(rest, AfterLastDelim(suffix))
                  ELSE Append(rest, suffix)

-----------------------------------------------------------------------------
(* Files and JSON *)

Absent == [exists |-> FALSE, content |-> <<>>]

TokClose == [tok |-> "}"]
TokItem(item) == [tok |-> "item", k |-> item.k, v |-> item.v]

\* only the entry written last is serialised
json_dump_last_entry(d) ==
    IF d = <<>> THEN <<TokClose>> ELSE <<TokItem(d[Len(d)]), TokClose>>

json_dump(d) ==
    [i \in 1..Len(d) |-> TokItem(d[i])] \o <<TokClose>>

TokArrayOpen == [tok |-> "["]
TokArrayClose == [tok |-> "]"]

IsArrayDoc(c) ==
    /\ Len(c) >= 2
    /\ c[1] = TokArrayOpen
    /\ c[Len(c)] = TokArrayClose
    /\ \A i \in 2..(Len(c) - 1) : c[i].tok = "item"

Items(c, first, last) == [i \in 1..(last - first + 1) |-> [k |-> c[first + i - 1].k, v |-> c[first + i - 1].v]]

IsObjectDoc(c) ==
    /\ Len(c) >= 1
    /\ c[Len(c)] = TokClose
    /\ \A i \in 1..(Len(c) - 1) : c[i].tok = "item"

json_load(c) ==
    IF IsObjectDoc(c)
    THEN [err |-> FALSE, isdict |-> TRUE, value |-> Items(c, 1, Len(c) - 1)]
    ELSE IF IsArrayDoc(c)
         THEN [err |-> FALSE, isdict |-> FALSE, value |-> Items(c, 2, Len(c) - 1)]
         ELSE [err |-> TRUE, isdict |-> FALSE, value |-> <<>>]

\* the isinstance test inverted: a mapping is rejected
Loaded_rejects_dict(fl) ==
    IF ~fl.exists
    THEN <<>>
    ELSE LET r == json_load(fl.content)
         IN  IF r.err \/ r.isdict THEN <<>> ELSE r.value

\* the isinstance test left out: any parsable root is kept
Loaded_keeps_any_root(fl) ==
    IF ~fl.exists
    THEN <<>>
    ELSE LET r == json_load(fl.content)
         IN  IF r.err THEN <<>> ELSE r.value

Loaded(fl) ==
    IF ~fl.exists
    THEN <<>>
    ELSE LET r == json_load(fl.content)
         IN  IF r.err \/ ~r.isdict THEN <<>> ELSE r.value

-----------------------------------------------------------------------------
(* The call in progress *)

NoCall ==
    [op |-> "none", g |-> Empty, f |-> Empty, t |-> Empty, d |-> Empty,
     ret |-> "none", persisted |-> FALSE, failed |-> "none", cleanup |-> "none",
     before |-> Absent, out |-> <<>>]

Enter(op, g, f, t, d) ==
    [op |-> op, g |-> g, f |-> f, t |-> t, d |-> d,
     ret |-> "running", persisted |-> FALSE, failed |-> "none", cleanup |-> "none",
     before |-> file, out |-> <<>>]

\* _process_group: not running ("idle"), between two attachments ("loop"),
\* inside mark_downloaded_chat ("marking") or set_watermark ("setwm"), returned ("done");
\* cycle counts the calls of _process_group; res holds the outcome of each
\* attempt of the batch; scanned and new_attachments are the attachments the
\* scan returned and those the filter kept; wm_before and store_before are the
\* watermark record and the backing store when the batch began
NoFlow ==
    [stage |-> "idle", cycle |-> 0, g |-> Empty, watermark |-> None,
     scanned |-> {}, new_attachments |-> <<>>,
     batch |-> <<>>, i |-> 0, res |-> <<>>, newest_downloaded_ts |-> None,
     wm_before |-> <<>>, store_before |-> Absent]

\* A step of _save fails with an I/O error.
Fault(step) ==
    /\ faults < MaxFaults
    /\ faults' = faults + 1
    /\ call' = [call EXCEPT !.failed = step]

\* First statement of _save, outside its try block:
\* self._path.parent.mkdir(parents=True, exist_ok=True).  When it fails the
\* exception leaves _save and the public method that called it (record c).
save_mkdir(c) ==
    \/ /\ pc' = "open"
       /\ call' = c
       /\ UNCHANGED faults
    \/ /\ faults < MaxFaults
       /\ faults' = faults + 1
       /\ call' = [c EXCEPT !.failed = "mkdir", !.ret = "raised"]
       /\ pc' = "idle"

-----------------------------------------------------------------------------
(* DedupTracker.__init__ and _load *)

_load ==
    /\ pc = "start"
    /\ data' = Loaded(file)
    /\ pc' = "idle"
    /\ call' = [NoCall EXCEPT !.op = "load", !.ret = "ok", !.before = file]
    /\ UNCHANGED <<file, tmp, now, faults, crashes, called, flow>>

-----------------------------------------------------------------------------
(* String comparison, as Python compares str: by code point, then by length *)

CharOrder == <<" ", "/", "0", "1", "2", "3", "4", "5", "6", "7", "8", "9", ":">>

Ord(c) == CHOOSE i \in 1..Len(CharOrder) : CharOrder[i] = c

RECURSIVE StrLe(_, _)
StrLe(a, b) ==
    IF a = <<>> THEN TRUE
    ELSE IF b = <<>> THEN FALSE
    ELSE IF a[1] = b[1] THEN StrLe(Tail(a), Tail(b))
    ELSE Ord(a[1]) < Ord(b[1])

\* bool(x) of an Optional[str]
Truthy(x) == x # None /\ x # Empty

\* x or ""
OrEmpty(x) == IF Truthy(x) THEN x ELSE Empty

-----------------------------------------------------------------------------
(* Mutations: the dict is updated first, then _save runs *)

mark_downloaded(group_name, file_name, dest_path) ==
    /\ pc = "idle"
    /\ data' = Put(data, _key(group_name, file_name),
                   [timestamp |-> now, dest |-> dest_path])
    /\ called' = called \cup {<<group_name, file_name>>}
    /\ now' = now + 1
    /\ save_mkdir(Enter("mark_downloaded", group_name, file_name, Empty, dest_path))
    /\ UNCHANGED <<file, tmp, crashes>>

mark_downloaded_chat(group_name, file_name, msg_timestamp, dest_path) ==
    /\ pc = "idle"
    /\ data' = Put(data, _chat_key(group_name, file_name, msg_timestamp),
                   [timestamp |-> now, msg_timestamp |-> msg_timestamp,
                    dest |-> dest_path])
    /\ now' = now + 1
    /\ save_mkdir(Enter("mark_downloaded_chat", group_name, file_name,
                        msg_timestamp, dest_path))
    /\ UNCHANGED <<file, tmp, crashes, called>>

\* the watermark is only ever raised: a smaller timestamp is ignored
set_watermark_monotonic(group_name, timestamp_str) ==
    /\ pc = "idle"
    /\ data' = IF /\ get_watermark(data, group_name) # None
                  /\ StrLe(timestamp_str, get_watermark(data, group_name))
               THEN data
               ELSE Put(data, _watermark_key(group_name),
                        [timestamp_str |-> timestamp_str, updated |-> now])
    /\ now' = now + 1
    /\ save_mkdir(Enter("set_watermark", group_name, Empty, timestamp_str, Empty))
    /\ UNCHANGED <<file, tmp, crashes, called>>

set_watermark(group_name, timestamp_str) ==
    /\ pc = "idle"
    /\ data' = Put(data, _watermark_key(group_name),
                   [timestamp_str |-> timestamp_str, updated |-> now])
    /\ now' = now + 1
    /\ save_mkdir(Enter("set_watermark", group_name, Empty, timestamp_str, Empty))
    /\ UNCHANGED <<file, tmp, crashes, called>>

-----------------------------------------------------------------------------
(* _save, one file-system operation per step *)

\* open(tmp, "w") creates or truncates the temp file
save_open ==
    /\ pc = "open"
    /\ \/ /\ tmp' = [exists |-> TRUE, content |-> <<>>]
          /\ pc' = "write"
          /\ UNCHANGED <<call, faults>>
       \/ /\ Fault("open")
          /\ pc' = "except"
          /\ UNCHANGED tmp
    /\ UNCHANGED <<data, file, now, crashes, called, flow>>

\* the document is written straight into the backing store
save_write_in_place ==
    /\ pc = "write"
    /\ LET doc == json_dump(data)
           n == Len(tmp.content)
       IN  /\ tmp' = [tmp EXCEPT !.content = Append(@, doc[n + 1])]
           /\ file' = tmp'
           /\ pc' = IF n + 1 = Len(doc) THEN "replace" ELSE "write"
           /\ UNCHANGED <<call, faults>>
    /\ UNCHANGED <<data, now, crashes, called, flow>>

\* json.dump writes the document piece by piece; after the last piece the
\* with block closes the file
save_write ==
    /\ pc = "write"
    /\ LET doc == json_dump(data)
           n == Len(tmp.content)
       IN  \/ /\ tmp' = [tmp EXCEPT !.content = Append(@, doc[n + 1])]
              /\ pc' = IF n + 1 = Len(doc) THEN "replace" ELSE "write"
              /\ UNCHANGED <<call, faults>>
           \/ /\ Fault("write")
              /\ pc' = "except"
              /\ UNCHANGED tmp
    /\ UNCHANGED <<data, file, now, crashes, called, flow>>

\* tmp.replace(self._path): an atomic rename over the backing store
save_replace ==
    /\ pc = "replace"
    /\ \/ /\ file' = tmp
          /\ tmp' = Absent
          /\ call' = [call EXCEPT !.ret = "ok", !.persisted = TRUE]
          /\ pc' = "idle"
          /\ UNCHANGED faults
       \/ /\ Fault("replace")
          /\ pc' = "except"
          /\ UNCHANGED <<file, tmp>>
    /\ UNCHANGED <<data, now, crashes, called, flow>>

\* the handler only logs
save_except_no_cleanup ==
    /\ pc = "except"
    /\ call' = [call EXCEPT !.ret = "ok"]
    /\ pc' = "idle"
    /\ UNCHANGED <<data, file, tmp, now, faults, crashes, called, flow>>

\* the handler also drops the in-memory changes the store does not hold
save_except_rollback ==
    /\ pc = "except"
    /\ data' = Loaded(file)
    /\ tmp' = Absent
    /\ call' = [call EXCEPT !.ret = "ok", !.cleanup = "done"]
    /\ pc' = "idle"
    /\ UNCHANGED <<file, now, faults, crashes, called, flow>>

\* except Exception: log.error(...); if tmp.exists(): tmp.unlink()
save_except ==
    /\ pc = "except"
    /\ \/ /\ ~tmp.exists
          /\ call' = [call EXCEPT !.ret = "ok"]
          /\ pc' = "idle"
          /\ UNCHANGED <<tmp, faults>>
       \/ /\ tmp.exists
          /\ tmp' = Absent
          /\ call' = [call EXCEPT !.ret = "ok", !.cleanup = "done"]
          /\ pc' = "idle"
          /\ UNCHANGED faults
       \/ \* tmp.unlink() fails inside the handler: the exception leaves _save
          /\ tmp.exists
          /\ call' = [call EXCEPT !.ret = "raised", !.cleanup = "failed"]
          /\ pc' = "idle"
          /\ UNCHANGED <<tmp, faults>>
    /\ UNCHANGED <<data, file, now, crashes, called, flow>>

-----------------------------------------------------------------------------
(* The process is killed: memory is lost, the files stay as they are *)

crash ==
    /\ pc # "start"
    /\ crashes < MaxCrashes
    /\ crashes' = crashes + 1
    /\ pc' = "start"
    /\ data' = <<>>
    /\ call' = NoCall
    /\ called' = {}
    /\ flow' = [NoFlow EXCEPT !.cycle = flow.cycle]
    /\ UNCHANGED <<file, tmp, now, faults>>

-----------------------------------------------------------------------------
(* The ledger driven directly through its public methods *)

OldItem == [k |-> _key(<<"A">>, <<"a">>), v |-> [timestamp |-> 0, dest |-> <<"x">>]]

InitialStores ==
    {Absent,
     \* a JSON array: parsable, but the root is not a mapping
     [exists |-> TRUE, content |-> <<TokArrayOpen, TokItem(OldItem), TokArrayClose>>],
     \* a truncated document: unparsable
     [exists |-> TRUE, content |-> <<TokItem(OldItem)>>]}

Init ==
    /\ pc = "start"
    /\ data = <<>>
    /\ file \in InitialStores
    /\ tmp = Absent
    /\ now = 1
    /\ call = NoCall
    /\ faults = 0
    /\ crashes = 0
    /\ called = {}
    /\ flow = NoFlow

api_mark_downloaded ==
    \E g \in Groups, f \in Files, d \in Dests :
        now <= MaxOps /\ mark_downloaded(g, f, d) /\ UNCHANGED flow

api_mark_downloaded_chat ==
    \E g \in Groups, f \in Files, t \in Timestamps \cup {Empty}, d \in Dests :
        now <= MaxOps /\ mark_downloaded_chat(g, f, t, d) /\ UNCHANGED flow

api_set_watermark ==
    \E g \in Groups, t \in Timestamps :
        now <= MaxOps /\ set_watermark(g, t) /\ UNCHANGED flow

Next ==
    \/ _load
    \/ api_mark_downloaded
    \/ api_mark_downloaded_chat
    \/ api_set_watermark
    \/ save_open
    \/ save_write
    \/ save_replace
    \/ save_except
    \/ crash

Spec == Init /\ [][Next]_vars

-----------------------------------------------------------------------------
(* One process of the tracker with its lookups called between the mutations;
   out holds the value a lookup returned *)

Returned(op, g, f, t, value) ==
    [Enter(op, g, f, t, Empty) EXCEPT !.ret = "ok", !.out = <<value>>]

\* entry = self._data.setdefault(key, {}): a missing entry is created
api_get_watermark_setdefault ==
    \E g \in Groups :
        /\ pc = "idle"
        /\ data' = Put_setdefault(data, _watermark_key(g), [updated |-> now])
        /\ call' = Returned("get_watermark", g, Empty, Empty, get_watermark(data, g))
        /\ UNCHANGED <<pc, file, tmp, now, faults, crashes, called, flow>>

api_is_downloaded ==
    \E g \in Groups, f \in Files :
        /\ pc = "idle"
        /\ call' = Returned("is_downloaded", g, f, Empty, is_downloaded(data, g, f))
        /\ UNCHANGED <<pc, data, file, tmp, now, faults, crashes, called, flow>>

api_is_downloaded_chat ==
    \E g \in Groups, f \in Files, t \in Timestamps \cup {Empty} :
        /\ pc = "idle"
        /\ call' = Returned("is_downloaded_chat", g, f, t,
                            is_downloaded_chat(data, g, f, t))
        /\ UNCHANGED <<pc, data, file, tmp, now, faults, crashes, called, flow>>

api_get_watermark ==
    \E g \in Groups :
        /\ pc = "idle"
        /\ call' = Returned("get_watermark", g, Empty, Empty, get_watermark(data, g))
        /\ UNCHANGED <<pc, data, file, tmp, now, faults, crashes, called, flow>>

api_get_downloaded_for_group ==
    \E g \in Groups :
        /\ pc = "idle"
        /\ call' = Returned("get_downloaded_for_group", g, Empty, Empty,
                            get_downloaded_for_group(data, g))
        /\ UNCHANGED <<pc, data, file, tmp, now, faults, crashes, called, flow>>

ReadNext ==
    \/ _load
    \/ api_mark_downloaded
    \/ api_mark_downloaded_chat
    \/ api_set_watermark
    \/ api_is_downloaded
    \/ api_is_downloaded_chat
    \/ api_get_watermark
    \/ api_get_downloaded_for_group
    \/ save_open
    \/ save_write
    \/ save_replace
    \/ save_except

ReadSpec == Init /\ [][ReadNext]_vars

-----------------------------------------------------------------------------
(* _process_group *)

Attachments == [filename : Files, timestamp : Timestamps \cup {None}]

RECURSIVE Reverse(_)
Reverse(q) == IF q = <<>> THEN <<>> ELSE Append(Reverse(Tail(q)), Head(q))

Take(q, n) == SubSeq(q, 1, IF Len(q) > n THEN n ELSE Len(q))

\* scan_chat_attachments keeps one attachment per (timestamp, filename)
Scans ==
    {q \in UNION {[1..n -> Attachments] : n \in 1..MaxScan} :
        \A i, j \in 1..Len(q) : i # j => q[i] # q[j]}

\* the filter trusts the watermark alone
IsNew_watermark_only(d, group_name, watermark, att) ==
    ~(Truthy(watermark) /\ Truthy(att.timestamp) /\ StrLe(att.timestamp, watermark))

\* the filter asks the dedup records alone
IsNew_dedup_only(d, group_name, watermark, att) ==
    ~is_downloaded_chat(d, group_name, att.filename, OrEmpty(att.timestamp))

\* only an attachment strictly before the watermark is skipped by it
IsNew_strictly_before(d, group_name, watermark, att) ==
    IF /\ Truthy(watermark) /\ Truthy(att.timestamp)
       /\ StrLe(att.timestamp, watermark) /\ att.timestamp # watermark
    THEN FALSE
    ELSE ~is_downloaded_chat(d, group_name, att.filename, OrEmpty(att.timestamp))

\* the watermark and dedup filter over one attachment
IsNew(d, group_name, watermark, att) ==
    IF Truthy(watermark) /\ Truthy(att.timestamp) /\ StrLe(att.timestamp, watermark)
    THEN FALSE
    ELSE ~is_downloaded_chat(d, group_name, att.filename, OrEmpty(att.timestamp))

RECURSIVE new_attachments(_, _, _, _)
new_attachments(d, group_name, watermark, attachments) ==
    IF attachments = <<>>
    THEN <<>>
    ELSE LET rest == new_attachments(d, group_name, watermark, Tail(attachments))
         IN  IF IsNew(d, group_name, watermark, Head(attachments))
             THEN <<Head(attachments)>> \o rest
             ELSE rest

\* the items of the dict that hold the watermark of a group
WatermarkItems(d, group_name) ==
    SelectSeq(d, LAMBDA item : item.k = _watermark_key(group_name))

\* navigation, scan, filter, cap, reverse
process_group ==
    /\ pc = "idle"
    /\ flow.stage \in {"idle", "done"}
    /\ flow.cycle < MaxCycles
    /\ \E group_name \in PolledGroups, attachments \in Scans :
         LET watermark == get_watermark(data, group_name)
             new == new_attachments(data, group_name, watermark, attachments)
         IN  flow' = [stage |-> IF new = <<>> THEN "done" ELSE "loop",
                      cycle |-> flow.cycle + 1,
                      g |-> group_name,
                      watermark |-> watermark,
                      scanned |-> {attachments[n] : n \in 1..Len(attachments)},
                      new_attachments |-> new,
                      batch |-> Reverse(Take(new, MaxDownloads)),
                      i |-> 1,
                      res |-> <<>>,
                      newest_downloaded_ts |-> None,
                      wm_before |-> WatermarkItems(data, group_name),
                      store_before |-> file]
    /\ UNCHANGED <<pc, data, file, tmp, now, call, faults, crashes, called>>

\* the last successful timestamp wins
newest_is_last_success(newest, timestamp) ==
    IF Truthy(timestamp) THEN timestamp ELSE newest

\* if att.timestamp: if newest is None or att.timestamp > newest: newest = att.timestamp
newest_after(newest, timestamp) ==
    IF Truthy(timestamp)
    THEN IF newest = None \/ ~StrLe(timestamp, newest) THEN timestamp ELSE newest
    ELSE newest

\* every attempt is counted as a success
after_attempt_counts_all(fl, outcome) ==
    [fl EXCEPT !.stage = "loop",
               !.i = @ + 1,
               !.res = Append(@, outcome),
               !.newest_downloaded_ts = newest_after(@, fl.batch[fl.i].timestamp)]

\* a failed attempt ends the batch
after_attempt_stops_on_failure(fl, outcome) ==
    [fl EXCEPT !.stage = "loop",
               !.i = IF outcome = "true" THEN @ + 1 ELSE Len(fl.batch) + 1,
               !.res = Append(@, outcome),
               !.newest_downloaded_ts =
                   IF outcome = "true"
                   THEN newest_after(@, fl.batch[fl.i].timestamp)
                   ELSE @]

\* the loop body after _download_and_move_chat returned True or False, or raised
after_attempt(fl, outcome) ==
    [fl EXCEPT !.stage = "loop",
               !.i = @ + 1,
               !.res = Append(@, outcome),
               !.newest_downloaded_ts =
                   IF outcome = "true"
                   THEN newest_after(@, fl.batch[fl.i].timestamp)
                   ELSE @]

\* _download_and_move_chat up to the call of mark_downloaded_chat
download_and_move_chat ==
    /\ pc = "idle"
    /\ flow.stage = "loop"
    /\ flow.i <= Len(flow.batch)
    /\ LET att == flow.batch[flow.i]
       IN  \/ \* download not triggered or no new file appeared (returns
              \* False), or the download, the directory scan or the move
              \* raises: the loop counts no success either way
              /\ flow' = after_attempt(flow, "false")
              /\ UNCHANGED <<pc, data, file, tmp, now, call, faults, crashes, called>>
           \/ \* the file was moved to dest
              \E dest \in Dests :
                  /\ mark_downloaded_chat(flow.g, att.filename,
                                          OrEmpty(att.timestamp), dest)
                  /\ flow' = [flow EXCEPT !.stage = "marking"]

\* mark_downloaded_chat returns (success) or raises (caught by the loop)
mark_returned ==
    /\ pc = "idle"
    /\ flow.stage = "marking"
    /\ flow' = after_attempt(flow, IF call.ret = "ok" THEN "true" ELSE "raised")
    /\ UNCHANGED <<pc, data, file, tmp, now, call, faults, crashes, called>>

\* after the loop: if newest_downloaded_ts: dedup.set_watermark(...)
advance_watermark ==
    /\ pc = "idle"
    /\ flow.stage = "loop"
    /\ flow.i > Len(flow.batch)
    /\ IF Truthy(flow.newest_downloaded_ts)
       THEN /\ set_watermark(flow.g, flow.newest_downloaded_ts)
            /\ flow' = [flow EXCEPT !.stage = "setwm"]
       ELSE /\ flow' = [flow EXCEPT !.stage = "done"]
            /\ UNCHANGED <<pc, data, file, tmp, now, call, faults, crashes, called>>

\* set_watermark returns, or raises into _run_cycle, which logs and goes on
watermark_returned ==
    /\ pc = "idle"
    /\ flow.stage = "setwm"
    /\ flow' = [flow EXCEPT !.stage = "done"]
    /\ UNCHANGED <<pc, data, file, tmp, now, call, faults, crashes, called>>

PollStores ==
    {Absent, [exists |-> TRUE, content |-> json_dump(<<OldItem>>)]}

PollInit ==
    /\ pc = "start"
    /\ data = <<>>
    /\ file \in PollStores
    /\ tmp = Absent
    /\ now = 1
    /\ call = NoCall
    /\ faults = 0
    /\ crashes = 0
    /\ called = {}
    /\ flow = NoFlow

PollNext ==
    \/ _load
    \/ process_group
    \/ download_and_move_chat
    \/ mark_returned
    \/ advance_watermark
    \/ watermark_returned
    \/ save_open
    \/ save_write
    \/ save_replace
    \/ save_except
    \/ crash

PollSpec == PollInit /\ [][PollNext]_vars


-----------------------------------------------------------------------------
(* run_claude.py: ChatScanner.find_downloads and _process_group *)

\* item.get("filename", "unknown") of an entry without a filename
Unknown == <<"u", "n", "k", "n", "o", "w", "n">>

ScanNames == {<<"a">>}

\* the click target of an entry: its "x" and "y" taken together
Coords == {<<"1">>, <<"2">>, <<"3">>}

\* the entries of the "files" list of the scanner's reply: a JSON object with
\* or without a filename and with or without usable coordinates, or a value
\* that is not an object at all
Candidates ==
    [object : {TRUE}, filename : ScanNames \cup {None}, x : Coords \cup {None}]
        \cup {[object |-> FALSE, filename |-> None, x |-> None]}

RawScans == {<<>>} \cup {<<c>> : c \in Candidates}
                \cup {<<c, e>> : c \in Candidates, e \in Candidates}

\* the loop over the entries of find_downloads: item.get raises
\* AttributeError on a value that is not an object, which the handler for
\* KeyError, ValueError and TypeError does not catch; a missing or unusable
\* coordinate is caught and the entry skipped
RECURSIVE find_downloads(_)
find_downloads(files) ==
    IF files = <<>>
    THEN [raised |-> FALSE, results |-> <<>>]
    ELSE LET item == Head(files)
         IN  IF ~item.object
             THEN [raised |-> TRUE, results |-> <<>>]
             ELSE LET rest == find_downloads(Tail(files))
                  IN  IF item.x = None
                      THEN rest
                      ELSE [rest EXCEPT !.results =
                               <<[filename |-> IF item.filename = None
                                               THEN Unknown
                                               ELSE item.filename,
                                  x |-> item.x]>> \o @]

\* the loop stops only once the clicks have passed the cap
RECURSIVE click_loop_cap_passed(_, _)
click_loop_cap_passed(fl, downloads) ==
    IF downloads = <<>>
    THEN fl
    ELSE LET item == Head(downloads)
         IN  IF item.filename \in fl.already
             THEN click_loop_cap_passed(fl, Tail(downloads))
             ELSE IF item.x \in fl.seen_coords
             THEN click_loop_cap_passed(fl, Tail(downloads))
             ELSE IF fl.total_clicks > MaxDownloads
             THEN [fl EXCEPT !.seen_coords = @ \cup {item.x}]
             ELSE click_loop_cap_passed([fl EXCEPT !.seen_coords = @ \cup {item.x},
                                                   !.total_clicks = @ + 1,
                                                   !.clicked = @ \cup {item.filename}],
                                        Tail(downloads))

\* the inner loop of one scan pass: dedup skip, coordinate skip, safety cap,
\* click
RECURSIVE click_loop(_, _)
click_loop(fl, downloads) ==
    IF downloads = <<>>
    THEN fl
    ELSE LET item == Head(downloads)
         IN  IF item.filename \in fl.already
             THEN click_loop(fl, Tail(downloads))
             ELSE IF item.x \in fl.seen_coords
             THEN click_loop(fl, Tail(downloads))
             ELSE IF fl.total_clicks >= MaxDownloads
             THEN [fl EXCEPT !.seen_coords = @ \cup {item.x}]
             ELSE click_loop([fl EXCEPT !.seen_coords = @ \cup {item.x},
                                        !.total_clicks = @ + 1,
                                        !.clicked = @ \cup {item.filename}],
                             Tail(downloads))

\* the state of run_claude._process_group: scanning ("scan"), left by an
\* exception ("raised"), moving the new files ("move"), inside mark_downloaded
\* ("marking"), returned ("done"); raw and downloads are the reply and the
\* result of the last find_downloads, clicked the names whose Download button
\* was clicked, res the outcome for each new file
ClaudeFlow(cycle, group_name, already) ==
    [stage |-> "scan", cycle |-> cycle, g |-> group_name, already |-> already,
     seen_coords |-> {}, total_clicks |-> 0, clicked |-> {}, scroll_i |-> 0,
     raw |-> <<>>, downloads |-> <<>>, new_files |-> <<>>, j |-> 0,
     res |-> <<>>, moved |-> 0]

IsClaude(fl) == "scroll_i" \in DOMAIN fl

Range(q) == {q[n] : n \in 1..Len(q)}

\* navigation, snapshot, already = set(dedup.get_downloaded_for_group(...))
claude_process_group ==
    /\ pc = "idle"
    /\ flow = NoFlow \/ (IsClaude(flow) /\ flow.stage \in {"done", "raised"})
    /\ flow.cycle < MaxCycles
    /\ \E group_name \in PolledGroups :
         LET fl == ClaudeFlow(flow.cycle + 1, group_name,
                              Range(get_downloaded_for_group(data, group_name)))
         IN  \/ flow' = fl
             \/ \* navigate_to_group failed: return 0
                flow' = [fl EXCEPT !.stage = "done"]
    /\ UNCHANGED <<pc, data, file, tmp, now, call, faults, crashes, called>>

\* one pass of the scroll loop: screenshot, find_downloads, clicks, scroll
claude_scan_pass ==
    /\ pc = "idle"
    /\ IsClaude(flow)
    /\ flow.stage = "scan"
    /\ flow.scroll_i <= MaxScrolls
    /\ \E files \in RawScans :
         LET found == find_downloads(files)
         IN  IF found.raised
             THEN flow' = [flow EXCEPT !.stage = "raised", !.raw = files,
                                       !.downloads = <<>>]
             ELSE flow' = [click_loop(flow, found.results)
                               EXCEPT !.scroll_i = @ + 1, !.raw = files,
                                      !.downloads = found.results]
    /\ UNCHANGED <<pc, data, file, tmp, now, call, faults, crashes, called>>

\* the new files of the download directory, oldest first: files appear there
\* through the clicks of this run, under the name read from the card
NewFiles(clicked) ==
    {q \in UNION {[1..n -> clicked] : n \in 0..Cardinality(clicked)} :
        \A m, n \in 1..Len(q) : m # n => q[m] # q[n]}

\* after the last pass: wait, then get_new_files(download_dir, before)
claude_get_new_files ==
    /\ pc = "idle"
    /\ IsClaude(flow)
    /\ flow.stage = "scan"
    /\ flow.scroll_i > MaxScrolls
    /\ \E new_files \in NewFiles(flow.clicked) :
         flow' = [flow EXCEPT !.stage = "move", !.new_files = new_files,
                              !.j = 1, !.raw = <<>>, !.downloads = <<>>]
    /\ UNCHANGED <<pc, data, file, tmp, now, call, faults, crashes, called>>

\* the body of the loop over new_files up to the call of mark_downloaded
claude_move_file ==
    /\ pc = "idle"
    /\ IsClaude(flow)
    /\ flow.stage = "move"
    /\ flow.j <= Len(flow.new_files)
    /\ LET fname == flow.new_files[flow.j]
       IN  IF is_downloaded(data, flow.g, fname)
           THEN /\ flow' = [flow EXCEPT !.j = @ + 1, !.res = Append(@, "skip")]
                /\ UNCHANGED <<pc, data, file, tmp, now, call, faults, crashes, called>>
           ELSE \/ \* move_file_to_gdrive raises: logged, next file
                   /\ flow' = [flow EXCEPT !.j = @ + 1, !.res = Append(@, "raised")]
                   /\ UNCHANGED <<pc, data, file, tmp, now, call, faults, crashes, called>>
                \/ \* the file was moved to dest
                   \E dest \in Dests :
                       /\ mark_downloaded(flow.g, fname, dest)
                       /\ flow' = [flow EXCEPT !.stage = "marking"]

\* mark_downloaded returns (moved += 1) or raises (caught, logged)
claude_mark_returned ==
    /\ pc = "idle"
    /\ IsClaude(flow)
    /\ flow.stage = "marking"
    /\ flow' = [flow EXCEPT !.stage = "move",
                            !.j = @ + 1,
                            !.res = Append(@, IF call.ret = "ok" THEN "true"
                                                                 ELSE "raised"),
                            !.moved = IF call.ret = "ok" THEN @ + 1 ELSE @]
    /\ UNCHANGED <<pc, data, file, tmp, now, call, faults, crashes, called>>

\* return moved
claude_return ==
    /\ pc = "idle"
    /\ IsClaude(flow)
    /\ flow.stage = "move"
    /\ flow.j > Len(flow.new_files)
    /\ flow' = [flow EXCEPT !.stage = "done"]
    /\ UNCHANGED <<pc, data, file, tmp, now, call, faults, crashes, called>>

-----------------------------------------------------------------------------
(* The two collection flows, attempt by attempt, with a ledger that does not fail *)

\* the polling flow starts a group only in a process that runs main.py
main_process_group == ~IsClaude(flow) /\ process_group

\* controller.download_chat_attachment(att): the download is triggered, or
\* it returns False or raises
download_chat_attachment ==
    /\ pc = "idle"
    /\ ~IsClaude(flow)
    /\ flow.stage = "loop"
    /\ flow.i <= Len(flow.batch)
    /\ \/ flow' = [flow EXCEPT !.stage = "triggered"]
       \/ flow' = after_attempt(flow, "false")
    /\ UNCHANGED <<pc, data, file, tmp, now, call, faults, crashes, called>>

\* get_new_files(dl_dir, existing_before): a new settled file is there, or
\* none is (return False), or the directory scan raises
detect_new_file ==
    /\ pc = "idle"
    /\ flow.stage = "triggered"
    /\ \/ flow' = [flow EXCEPT !.stage = "detected"]
       \/ flow' = after_attempt(flow, "false")
    /\ UNCHANGED <<pc, data, file, tmp, now, call, faults, crashes, called>>

\* move_file_to_gdrive(downloaded_path, ...) returns the destination or raises
move_file_to_gdrive ==
    /\ pc = "idle"
    /\ flow.stage = "detected"
    /\ \/ flow' = [flow EXCEPT !.stage = "moved"]
       \/ flow' = after_attempt(flow, "raised")
    /\ UNCHANGED <<pc, data, file, tmp, now, call, faults, crashes, called>>

\* the record is written although the move raised
mark_moved_or_not ==
    /\ flow.stage \in {"detected", "moved"}
    /\ \E dest \in Dests :
           mark_downloaded_chat(flow.g, flow.batch[flow.i].filename,
                                OrEmpty(flow.batch[flow.i].timestamp), dest)
    /\ flow' = [flow EXCEPT !.stage = "marking"]

\* ts = att.timestamp or ""; dedup.mark_downloaded_chat(group.name, att.filename, ts, dest)
mark_moved ==
    /\ flow.stage = "moved"
    /\ \E dest \in Dests :
           mark_downloaded_chat(flow.g, flow.batch[flow.i].filename,
                                OrEmpty(flow.batch[flow.i].timestamp), dest)
    /\ flow' = [flow EXCEPT !.stage = "marking"]

main_mark_returned == ~IsClaude(flow) /\ mark_returned

\* a store as tools/seed_watermark.py leaves it: a watermark, no record
SeededStore ==
    [exists |-> TRUE,
     content |-> json_dump(<<[k |-> _watermark_key(<<"A">>),
                              v |-> [timestamp_str |-> <<"9">>, updated |-> 0]]>>)]

CollectStores == PollStores \cup {SeededStore}

\* one process of main.py or of run_claude.py whose ledger writes do not fail
CollectInit ==
    /\ pc = "start"
    /\ data = <<>>
    /\ file \in CollectStores
    /\ tmp = Absent
    /\ now = 1
    /\ call = NoCall
    /\ faults = MaxFaults
    /\ crashes = MaxCrashes
    /\ called = {}
    /\ flow = NoFlow

CollectNext ==
    \/ _load
    \/ main_process_group
    \/ download_chat_attachment
    \/ detect_new_file
    \/ move_file_to_gdrive
    \/ mark_moved
    \/ main_mark_returned
    \/ advance_watermark
    \/ watermark_returned
    \/ claude_process_group
    \/ claude_scan_pass
    \/ claude_get_new_files
    \/ claude_move_file
    \/ claude_mark_returned
    \/ claude_return
    \/ save_open
    \/ save_write
    \/ save_replace

CollectSpec == CollectInit /\ [][CollectNext]_vars

-----------------------------------------------------------------------------
(* mark_downloaded_chat over names and timestamps that hold single colons *)

ColonGroups == {<<"A">>, <<"A", ":">>}

ColonFiles == {<<"a">>, <<":", "a">>}

ColonTimestamps == {Empty, <<":">>, <<"9">>, <<"1", ":", "0">>}

colon_mark_downloaded_chat ==
    \E g \in ColonGroups, f \in ColonFiles, t \in ColonTimestamps, d \in Dests :
        now <= MaxOps /\ mark_downloaded_chat(g, f, t, d) /\ UNCHANGED flow

\* a process over an empty ledger whose writes do not fail
ColonInit ==
    /\ pc = "start"
    /\ data = <<>>
    /\ file = Absent
    /\ tmp = Absent
    /\ now = 1
    /\ call = NoCall
    /\ faults = MaxFaults
    /\ crashes = MaxCrashes
    /\ called = {}
    /\ flow = NoFlow

ColonNext ==
    \/ _load
    \/ colon_mark_downloaded_chat
    \/ save_open
    \/ save_write
    \/ save_replace

ColonSpec == ColonInit /\ [][ColonNext]_vars

-----------------------------------------------------------------------------
(* The loops around the groups: main._polling_loop / _run_cycle and the loop
   mode of run_claude.main / run_once *)

\* cfg.groups
LoopGroups == <<(<<"A">>), (<<"B">>)>>

Programs == {"main", "run_claude"}

\* the loop of one program: before the first cycle ("start"), connecting
\* ("connect"), in the loop over the groups ("groups"), sleeping ("sleep"),
\* left ("exited"); done holds the outcome of each group entered in the
\* current cycle, cycles how each earlier cycle ended
LoopFlow(program) ==
    [program |-> program, stage |-> "start", cycle |-> 0, gi |-> 0,
     done |-> <<>>, cycles |-> <<>>, stopped_by |-> "none"]

\* while True: cycle += 1; try: _run_cycle(...)
polling_loop_iteration ==
    /\ flow.program = "main"
    /\ flow.stage \in {"start", "sleep"}
    /\ flow.cycle < MaxCycles
    /\ flow' = [flow EXCEPT !.stage = "connect", !.cycle = @ + 1,
                            !.gi = 0, !.done = <<>>]
    /\ UNCHANGED <<pc, data, file, tmp, now, call, faults, crashes, called>>

\* if not controller.connect(): return; an exception of connect leaves
\* _run_cycle and is caught by _polling_loop
run_cycle_connect ==
    /\ flow.program = "main"
    /\ flow.stage = "connect"
    /\ \/ flow' = [flow EXCEPT !.stage = "groups", !.gi = 1]
       \/ flow' = [flow EXCEPT !.stage = "sleep", !.cycles = Append(@, "skipped")]
       \/ flow' = [flow EXCEPT !.stage = "sleep", !.cycles = Append(@, "failed")]
    /\ UNCHANGED <<pc, data, file, tmp, now, call, faults, crashes, called>>

\* for group in cfg.groups: try: _process_group(...) except Exception: log,
\* send_escape() (which swallows its own exceptions), sleep
run_cycle_group ==
    /\ flow.program = "main"
    /\ flow.stage = "groups"
    /\ flow.gi <= Len(LoopGroups)
    /\ \E outcome \in {"ok", "raised"} :
           flow' = [flow EXCEPT !.done = Append(@, outcome), !.gi = @ + 1]
    /\ UNCHANGED <<pc, data, file, tmp, now, call, faults, crashes, called>>

\* _run_cycle returns after the last group
run_cycle_return ==
    /\ flow.program = "main"
    /\ flow.stage = "groups"
    /\ flow.gi > Len(LoopGroups)
    /\ flow' = [flow EXCEPT !.stage = "sleep", !.cycles = Append(@, "ok")]
    /\ UNCHANGED <<pc, data, file, tmp, now, call, faults, crashes, called>>

\* run_claude.main, loop mode: while True: try: run_once(...)
loop_mode_iteration ==
    /\ flow.program = "run_claude"
    /\ flow.stage \in {"start", "sleep"}
    /\ flow.cycle < MaxCycles
    /\ flow' = [flow EXCEPT !.stage = "groups", !.cycle = @ + 1,
                            !.gi = 1, !.done = <<>>]
    /\ UNCHANGED <<pc, data, file, tmp, now, call, faults, crashes, called>>

\* run_once: for group in cfg.groups: moved = _process_group(...), with no
\* handler of its own: an exception leaves run_once and is caught by the loop
run_once_group ==
    /\ flow.program = "run_claude"
    /\ flow.stage = "groups"
    /\ flow.gi <= Len(LoopGroups)
    /\ \/ flow' = [flow EXCEPT !.done = Append(@, "ok"), !.gi = @ + 1]
       \/ flow' = [flow EXCEPT !.done = Append(@, "raised"),
                               !.cycles = Append(@, "failed"),
                               !.stage = "sleep"]
    /\ UNCHANGED <<pc, data, file, tmp, now, call, faults, crashes, called>>

\* run_once returns after the last group
run_once_return ==
    /\ flow.program = "run_claude"
    /\ flow.stage = "groups"
    /\ flow.gi > Len(LoopGroups)
    /\ flow' = [flow EXCEPT !.stage = "sleep", !.cycles = Append(@, "ok")]
    /\ UNCHANGED <<pc, data, file, tmp, now, call, faults, crashes, called>>

\* Ctrl+C: KeyboardInterrupt is not an Exception, no handler of a cycle or of
\* a group catches it and the program leaves its loop
keyboard_interrupt ==
    /\ flow.stage \in {"connect", "groups", "sleep"}
    /\ flow' = [flow EXCEPT !.stage = "exited", !.stopped_by = "KeyboardInterrupt"]
    /\ UNCHANGED <<pc, data, file, tmp, now, call, faults, crashes, called>>

LoopInit ==
    /\ pc = "idle"
    /\ data = <<>>
    /\ file = Absent
    /\ tmp = Absent
    /\ now = 1
    /\ call = NoCall
    /\ faults = 0
    /\ crashes = 0
    /\ called = {}
    /\ flow \in {LoopFlow(program) : program \in Programs}

LoopNext ==
    \/ polling_loop_iteration
    \/ run_cycle_connect
    \/ run_cycle_group
    \/ run_cycle_return
    \/ loop_mode_iteration
    \/ run_once_group
    \/ run_once_return
    \/ keyboard_interrupt

LoopSpec == LoopInit /\ [][LoopNext]_vars

-----------------------------------------------------------------------------
(* The files of a batch: the download directory, get_new_files,
   move_file_to_gdrive and _resolve_collision *)

\* str(counter), in decimal
Digits == <<"0", "1", "2", "3", "4", "5", "6", "7", "8", "9">>

RECURSIVE DecimalStr(_)
DecimalStr(n) ==
    IF n < 10 THEN <<Digits[n + 1]>>
    ELSE DecimalStr(n \div 10) \o <<Digits[(n % 10) + 1]>>

\* Path.suffix and Path.stem: the suffix starts at the last dot, unless that
\* dot is the first or the last character of the name
DotAt(name) == {n \in 1..Len(name) : name[n] = "."}

HasSuffix(name) ==
    DotAt(name) # {} /\ Max(DotAt(name)) > 1 /\ Max(DotAt(name)) < Len(name)

Suffix(name) ==
    IF HasSuffix(name) THEN SubSeq(name, Max(DotAt(name)), Len(name)) ELSE Empty

Stem(name) ==
    IF HasSuffix(name) THEN SubSeq(name, 1, Max(DotAt(name)) - 1) ELSE name

\* parent / f"{stem}_{counter}{suffix}"
Candidate(name, counter) ==
    Stem(name) \o <<"_">> \o DecimalStr(counter) \o Suffix(name)

\* the while loop of _resolve_collision, from counter on; paths are the
\* paths that exist in the destination directory
RECURSIVE FirstFree(_, _, _)
FirstFree(paths, name, counter) ==
    IF Candidate(name, counter) \notin paths
    THEN Candidate(name, counter)
    ELSE FirstFree(paths, name, counter + 1)

\* the destination is used as it is
_resolve_collision_overwrites(paths, name) == name

_resolve_collision(paths, name) ==
    IF name \notin paths THEN name ELSE FirstFree(paths, name, 1)

\* the names DingTalk saves a download under
DiskNames == {<<"a">>, <<"a", ".", "t">>}

FileAttachments == [filename : DiskNames, timestamp : {None, <<"9">>}]

\* new_attachments after the cap: distinct attachments
FileBatches ==
    {q \in UNION {[1..n -> FileAttachments] : n \in 1..MaxDownloads} :
        \A m, n \in 1..Len(q) : m # n => q[m] # q[n]}

\* what the destination directory may hold when the batch begins; origin 0
\* stands for a file that was there before
OldDestinations ==
    {{},
     {[path |-> <<"a">>, origin |-> 0]},
     {[path |-> <<"a">>, origin |-> 0], [path |-> <<"a", "_", "1">>, origin |-> 0]},
     {[path |-> <<"a", ".", "t">>, origin |-> 0]}}

Names(dir) == {e.name : e \in dir}

Paths(dir) == {e.path : e \in dir}

\* the loop of _process_group over the batch with its files: download_dir
\* holds the files of the download directory, each with the attempt whose
\* download wrote it (origin), whether it has been left alone for
\* _SETTLE_SECONDS (settled) and its modification time; existing_before is
\* the snapshot of names; gdrive the files of the destination directory; src
\* and dest the file picked and the path it was moved to; moved lists, for
\* every move, the attempt and the origin of the file
FilesFlow(batch, gdrive) ==
    [stage |-> "loop", g |-> <<"A">>, batch |-> batch, i |-> 1, res |-> <<>>,
     download_dir |-> {}, existing_before |-> {}, gdrive |-> gdrive,
     clock |-> 1, src |-> None, dest |-> None, moved |-> <<>>]

IsFiles(fl) == "download_dir" \in DOMAIN fl

\* the loop body after _download_and_move_chat: existing_before is
\* refreshed after a success only
files_after_attempt(fl, outcome) ==
    [fl EXCEPT !.stage = "loop", !.i = @ + 1, !.res = Append(@, outcome),
               !.src = None, !.dest = None,
               !.existing_before = IF outcome = "true"
                                   THEN Names(fl.download_dir)
                                   ELSE @]

\* controller.download_chat_attachment(att): nothing is triggered (False),
\* or a download starts and, when the wait is over, its file is settled or
\* is still being written
files_download_chat_attachment ==
    /\ pc = "idle"
    /\ flow.stage = "loop"
    /\ flow.i <= Len(flow.batch)
    /\ \/ flow' = files_after_attempt(flow, "false")
       \/ \E name \in DiskNames \ Names(flow.download_dir), settled \in BOOLEAN :
              flow' = [flow EXCEPT
                         !.stage = "triggered",
                         !.clock = @ + 1,
                         !.download_dir = @ \cup
                             {[name |-> name, origin |-> flow.i,
                               settled |-> settled, mtime |-> flow.clock]}]
    /\ UNCHANGED <<pc, data, file, tmp, now, call, faults, crashes, called>>

\* a download that was still being written ends, and time passes
files_settle ==
    /\ pc = "idle"
    /\ flow.stage = "loop"
    /\ \E f \in flow.download_dir :
           /\ ~f.settled
           /\ flow' = [flow EXCEPT
                         !.clock = @ + 1,
                         !.download_dir = (@ \ {f}) \cup
                             {[f EXCEPT !.settled = TRUE, !.mtime = flow.clock]}]
    /\ UNCHANGED <<pc, data, file, tmp, now, call, faults, crashes, called>>

\* get_new_files(dl_dir, existing_before), sorted by mtime
NewSettled(fl) ==
    {f \in fl.download_dir : f.settled /\ f.name \notin fl.existing_before}

\* new_files[-1]
LastModified(S) == CHOOSE f \in S : \A other \in S : other.mtime <= f.mtime

\* if not new_files: return False; downloaded_path = new_files[-1]
files_get_new_files ==
    /\ pc = "idle"
    /\ flow.stage = "triggered"
    /\ IF NewSettled(flow) = {}
       THEN flow' = files_after_attempt(flow, "false")
       ELSE flow' = [flow EXCEPT !.stage = "detected",
                                 !.src = LastModified(NewSettled(flow))]
    /\ UNCHANGED <<pc, data, file, tmp, now, call, faults, crashes, called>>

\* move_file_to_gdrive: dest = _resolve_collision(dest_dir / name);
\* shutil.move(file_path, dest), which replaces a file at dest; an exception
\* leaves _download_and_move_chat
files_move_file_to_gdrive ==
    /\ pc = "idle"
    /\ flow.stage = "detected"
    /\ \/ flow' = files_after_attempt(flow, "raised")
       \/ LET dest == _resolve_collision(Paths(flow.gdrive), flow.src.name)
          IN  flow' = [flow EXCEPT
                         !.stage = "moved",
                         !.dest = dest,
                         !.download_dir = @ \ {flow.src},
                         !.gdrive = {e \in @ : e.path # dest} \cup
                                        {[path |-> dest, origin |-> flow.src.origin]},
                         !.moved = Append(@, [att |-> flow.i,
                                              origin |-> flow.src.origin,
                                              dest |-> dest])]
    /\ UNCHANGED <<pc, data, file, tmp, now, call, faults, crashes, called>>

\* ts = att.timestamp or ""; dedup.mark_downloaded_chat(group.name, att.filename, ts, dest)
files_mark_downloaded_chat ==
    /\ flow.stage = "moved"
    /\ mark_downloaded_chat(flow.g, flow.batch[flow.i].filename,
                            OrEmpty(flow.batch[flow.i].timestamp), flow.dest)
    /\ flow' = [flow EXCEPT !.stage = "marking"]

\* return True; in the loop: existing_before = _snapshot_download_dir(dl_dir)
files_mark_returned ==
    /\ pc = "idle"
    /\ flow.stage = "marking"
    /\ flow' = files_after_attempt(flow, "true")
    /\ UNCHANGED <<pc, data, file, tmp, now, call, faults, crashes, called>>

\* a process over an empty ledger whose writes do not fail, at the start of
\* the loop over a batch
FilesInit ==
    /\ pc = "start"
    /\ data = <<>>
    /\ file = Absent
    /\ tmp = Absent
    /\ now = 1
    /\ call = NoCall
    /\ faults = MaxFaults
    /\ crashes = MaxCrashes
    /\ called = {}
    /\ flow \in {FilesFlow(batch, gdrive) :
                    batch \in FileBatches, gdrive \in OldDestinations}

FilesNext ==
    \/ _load
    \/ files_download_chat_attachment
    \/ files_settle
    \/ files_get_new_files
    \/ files_move_file_to_gdrive
    \/ files_mark_downloaded_chat
    \/ files_mark_returned
    \/ save_open
    \/ save_write
    \/ save_replace

FilesSpec == FilesInit /\ [][FilesNext]_vars

-----------------------------------------------------------------------------
(* Two DedupTracker instances over one backing store: the poller and
   tools/seed_watermark.py.  Both use the same path and the same temp path;
   nothing in _load or _save takes a lock. *)

\* the state of one instance: its position (as pc), its _data, the file its
\* open handle writes to ("tmp"; "file" once the temp file was renamed over
\* the store under it; "gone" once it was unlinked or replaced) and the
\* offset of the handle, the outcome of its last call and the step of _save
\* that failed in it
NewInstance ==
    [pc |-> "start", data |-> <<>>, target |-> "none", pos |-> 0,
     ret |-> "none", failed |-> "none"]

\* the operating system decides what rename and unlink do to a file that
\* another process holds open: refused on Windows, carried out on POSIX
Platforms == {"windows", "posix"}

TwoFlow(platform) == [platform |-> platform, inst |-> <<NewInstance, NewInstance>>]

IsTwo(fl) == "inst" \in DOMAIN fl

Instances == {1, 2}

Other(n) == 3 - n

\* the instance is inside `with open(tmp, "w")` and its handle is on the temp file
HoldsTmp(i) == i.pc = "write" /\ i.target = "tmp"

Hole == [tok |-> "hole"]

\* a write of one piece at offset pos of a file: past the end the gap is
\* filled, inside the file the piece there is overwritten
WriteAt(content, pos, token) ==
    IF pos >= Len(content)
    THEN content \o [k \in 1..(pos - Len(content)) |-> Hole] \o <<token>>
    ELSE [content EXCEPT ![pos + 1] = token]

\* DedupTracker(path): _load
two_load ==
    \E n \in Instances :
        /\ flow.inst[n].pc = "start"
        /\ flow' = [flow EXCEPT !.inst[n].pc = "idle",
                                !.inst[n].data = Loaded(file)]
        /\ UNCHANGED <<pc, data, file, tmp, now, call, faults, crashes, called>>

\* self._data[key] = value, then _save begins (mkdir succeeds)
TwoPut(n, key, value) ==
    /\ flow.inst[n].pc = "idle"
    /\ now <= MaxOps
    /\ now' = now + 1
    /\ flow' = [flow EXCEPT !.inst[n].pc = "open",
                            !.inst[n].data = Put(@, key, value),
                            !.inst[n].ret = "running",
                            !.inst[n].failed = "none"]
    /\ UNCHANGED <<pc, data, file, tmp, call, faults, crashes, called>>

two_mark_downloaded_chat ==
    \E n \in Instances, f \in Files, t \in Timestamps, d \in Dests :
        TwoPut(n, _chat_key(<<"A">>, f, t),
               [timestamp |-> now, msg_timestamp |-> t, dest |-> d])

two_set_watermark ==
    \E n \in Instances, t \in Timestamps :
        TwoPut(n, _watermark_key(<<"A">>), [timestamp_str |-> t, updated |-> now])

\* open(tmp, "w"): the temp file is created or truncated; a handle the other
\* instance holds on it stays valid
two_save_open ==
    \E n \in Instances :
        /\ flow.inst[n].pc = "open"
        /\ tmp' = [exists |-> TRUE, content |-> <<>>]
        /\ flow' = [flow EXCEPT !.inst[n].pc = "write",
                                !.inst[n].target = "tmp",
                                !.inst[n].pos = 0]
        /\ UNCHANGED <<pc, data, file, now, call, faults, crashes, called>>

\* json.dump writes the next piece through the handle, into whatever file the
\* handle is on by now; after the last piece the handle is closed
two_save_write ==
    \E n \in Instances :
        LET i == flow.inst[n]
            doc == json_dump(i.data)
            token == doc[i.pos + 1]
            last == i.pos + 1 = Len(doc)
        IN  /\ i.pc = "write"
            /\ tmp' = IF i.target = "tmp"
                      THEN [tmp EXCEPT !.content = WriteAt(@, i.pos, token)]
                      ELSE tmp
            /\ file' = IF i.target = "file"
                       THEN [file EXCEPT !.content = WriteAt(@, i.pos, token)]
                       ELSE file
            /\ flow' = [flow EXCEPT !.inst[n].pos = @ + 1,
                                    !.inst[n].pc = IF last THEN "replace" ELSE "write",
                                    !.inst[n].target = IF last THEN "none" ELSE @]
            /\ UNCHANGED <<pc, data, now, call, faults, crashes, called>>

\* the temp file is merged into the store instead of replacing it
two_save_replace_merges ==
    \E n \in Instances :
        /\ flow.inst[n].pc = "replace"
        /\ tmp.exists
        /\ file' = [exists |-> TRUE,
                    content |-> json_dump(Loaded(file) \o Loaded(tmp))]
        /\ tmp' = Absent
        /\ flow' = [flow EXCEPT !.inst[n].pc = "idle", !.inst[n].ret = "ok"]
        /\ UNCHANGED <<pc, data, now, call, faults, crashes, called>>

\* tmp.replace(self._path): fails when the temp file is not there any more
\* (the other instance renamed or removed it) and, on Windows, when the
\* other instance holds it open; else the temp file becomes the store, and a
\* handle the other instance holds follows the file
two_save_replace ==
    \E n \in Instances :
        LET o == Other(n)
            refused == flow.platform = "windows" /\ HoldsTmp(flow.inst[o])
        IN  /\ flow.inst[n].pc = "replace"
            /\ IF ~tmp.exists \/ refused
               THEN /\ flow' = [flow EXCEPT !.inst[n].pc = "except",
                                            !.inst[n].failed = "replace"]
                    /\ UNCHANGED <<file, tmp>>
               ELSE /\ file' = tmp
                    /\ tmp' = Absent
                    /\ flow' = [flow EXCEPT
                                  !.inst[n].pc = "idle",
                                  !.inst[n].ret = "ok",
                                  !.inst[o].target =
                                      CASE @ = "tmp" -> "file"
                                        [] @ = "file" -> "gone"
                                        [] OTHER -> @]
            /\ UNCHANGED <<pc, data, now, call, faults, crashes, called>>

\* except Exception: log.error(...); if tmp.exists(): tmp.unlink().  The
\* temp file found there is the other instance's; on Windows the unlink of a
\* file held open raises out of _save
two_save_except ==
    \E n \in Instances :
        LET o == Other(n)
            refused == flow.platform = "windows" /\ HoldsTmp(flow.inst[o])
        IN  /\ flow.inst[n].pc = "except"
            /\ IF ~tmp.exists
               THEN /\ flow' = [flow EXCEPT !.inst[n].pc = "idle",
                                            !.inst[n].ret = "ok"]
                    /\ UNCHANGED tmp
               ELSE IF refused
               THEN /\ flow' = [flow EXCEPT !.inst[n].pc = "idle",
                                            !.inst[n].ret = "raised"]
                    /\ UNCHANGED tmp
               ELSE /\ tmp' = Absent
                    /\ flow' = [flow EXCEPT
                                  !.inst[n].pc = "idle",
                                  !.inst[n].ret = "ok",
                                  !.inst[o].target = IF @ = "tmp" THEN "gone" ELSE @]
            /\ UNCHANGED <<pc, data, file, now, call, faults, crashes, called>>

TwoInit ==
    /\ pc = "idle"
    /\ data = <<>>
    /\ file \in PollStores
    /\ tmp = Absent
    /\ now = 1
    /\ call = NoCall
    /\ faults = 0
    /\ crashes = 0
    /\ called = {}
    /\ flow \in {TwoFlow(platform) : platform \in Platforms}

TwoNext ==
    \/ two_load
    \/ two_mark_downloaded_chat
    \/ two_set_watermark
    \/ two_save_open
    \/ two_save_write
    \/ two_save_replace
    \/ two_save_except

TwoSpec == TwoInit /\ [][TwoNext]_vars

-----------------------------------------------------------------------------
(* Properties of the ledger *)

AnyTimestamp == Timestamps \cup {Empty}

GoodStore(fl) == fl.exists /\ IsObjectDoc(fl.content)

\* the step in which mark_downloaded_chat updates the dict
MarkChatStep == pc = "idle" /\ now' = now + 1 /\ call'.op = "mark_downloaded_chat"

\* C1: once mark_downloaded(g, f, d) has returned with its persist done, a
\* tracker loaded from the backing store answers is_downloaded(g, f) with true.
RoundTrip ==
    (pc = "idle" /\ call.op = "mark_downloaded" /\ call.persisted)
        => is_downloaded(Loaded(file), call.g, call.f)

RoundTripWitness ==
    /\ pc = "idle"
    /\ call.op = "mark_downloaded"
    /\ call.persisted
    /\ Len(Loaded(file)) >= 2

\* C2: mark_downloaded_chat(g, f, t1, d) does not turn is_downloaded_chat(g, f, t2)
\* from false to true for any other timestamp t2.
CompositeIsolation ==
    [][MarkChatStep =>
          \A t2 \in AnyTimestamp \ {call'.t} :
              ~is_downloaded_chat(data, call'.g, call'.f, t2)
                  => ~is_downloaded_chat(data', call'.g, call'.f, t2)]_vars

CompositeIsolationWitness ==
    /\ call.op = "mark_downloaded_chat"
    /\ is_downloaded_chat(data, call.g, call.f, call.t)
    /\ \E t2 \in AnyTimestamp \ {call.t} : ~is_downloaded_chat(data, call.g, call.f, t2)

\* C3: for every (g, f) this process has passed to mark_downloaded,
\* is_downloaded_chat(g, f, t) is true for every timestamp t, the empty one included.
LegacyFallback ==
    \A gf \in called : \A t \in AnyTimestamp :
        is_downloaded_chat(data, gf[1], gf[2], t)

LegacyFallbackWitness ==
    /\ pc = "idle"
    /\ called # {}
    /\ \E gf \in called : \E t \in AnyTimestamp :
           ~HasKey(data, _chat_key(gf[1], gf[2], t))

\* C4: the composite key of an attachment differs from its legacy key, and
\* mark_downloaded_chat(g, f, t, d) leaves the answer of is_downloaded(g, f) as it was.
OneWayFallback ==
    [][MarkChatStep =>
          /\ _chat_key(call'.g, call'.f, call'.t) # _key(call'.g, call'.f)
          /\ is_downloaded(data', call'.g, call'.f) = is_downloaded(data, call'.g, call'.f)]_vars

OneWayFallbackWitness ==
    /\ call.op = "mark_downloaded_chat"
    /\ call.t = Empty
    /\ is_downloaded_chat(data, call.g, call.f, Empty)
    /\ ~is_downloaded(data, call.g, call.f)

\* C5: whatever step is taken, a kill of the process included, the backing
\* store either keeps its content or becomes the complete serialization of
\* the mapping held in memory.
CrashAtomicity ==
    [][\/ file' = file
       \/ /\ file'.exists
          /\ file'.content = json_dump(data)
          /\ IsObjectDoc(file'.content)]_vars

CrashAtomicityWitness ==
    /\ pc = "start"
    /\ crashes > 0
    /\ tmp.exists
    /\ ~IsObjectDoc(tmp.content)
    /\ GoodStore(file)

PersistNeverRaises == call.ret # "raised"

\* C8: a tracker constructed over a store that is missing, unparsable or not
\* a mapping is constructed without an exception, leaves the store as it
\* was, and answers every lookup like an empty ledger.
BehavesEmpty(d) ==
    \A g \in Groups :
        /\ get_watermark(d, g) = None
        /\ get_downloaded_for_group(d, g) = <<>>
        /\ \A f \in Files :
               /\ ~is_downloaded(d, g, f)
               /\ \A t \in AnyTimestamp : ~is_downloaded_chat(d, g, f, t)

LoadResilience ==
    (pc = "idle" /\ call.op = "load" /\ ~GoodStore(call.before))
        => (call.ret = "ok" /\ file = call.before /\ BehavesEmpty(data))

LoadResilienceWitness ==
    /\ pc = "idle"
    /\ call.op = "load"
    /\ call.before.exists
    /\ ~GoodStore(call.before)
    /\ json_load(call.before.content).value # <<>>

-----------------------------------------------------------------------------
(* Properties of the polling flow *)

\* the attempts of the batch that ended in success
Successes(fl) == {i \in 1..Len(fl.res) : fl.res[i] = "true"}

\* the timestamps of the successful attachments that carry one
SuccessTimestamps(fl) ==
    {fl.batch[i].timestamp : i \in {j \in Successes(fl) : Truthy(fl.batch[j].timestamp)}}

LexMax(S) == CHOOSE x \in S : \A y \in S : StrLe(y, x)

\* C9: when _process_group has returned from a batch with at least one
\* successful timestamped attachment, the watermark of the group is the
\* lexicographic maximum of the timestamps of the successful attachments.
WatermarkIsMaxSuccess ==
    (flow.stage = "done" /\ SuccessTimestamps(flow) # {})
        => get_watermark(data, flow.g) = LexMax(SuccessTimestamps(flow))

\* two successes, the later one carrying the smaller timestamp
WatermarkIsMaxSuccessWitness ==
    /\ flow.stage = "done"
    /\ \E i, j \in Successes(flow) :
           /\ i < j
           /\ Truthy(flow.batch[i].timestamp)
           /\ Truthy(flow.batch[j].timestamp)
           /\ flow.batch[i].timestamp # flow.batch[j].timestamp
           /\ StrLe(flow.batch[j].timestamp, flow.batch[i].timestamp)

\* C10: when _process_group has returned from a batch without a success,
\* get_watermark(g) is what it was when the batch began (None included) and
\* the watermark record is untouched, in memory and in the backing store.
NoMoveOnTotalFailure ==
    (flow.stage = "done" /\ Successes(flow) = {})
        => /\ get_watermark(data, flow.g) = flow.watermark
           /\ WatermarkItems(data, flow.g) = flow.wm_before
           /\ WatermarkItems(Loaded(file), flow.g)
                  = WatermarkItems(Loaded(flow.store_before), flow.g)

\* a batch of failures only, one of them after the file was moved, with a
\* watermark already set
NoMoveOnTotalFailureWitness ==
    /\ flow.stage = "done"
    /\ Successes(flow) = {}
    /\ flow.res # <<>>
    /\ Truthy(flow.watermark)
    /\ call.op = "mark_downloaded_chat"
    /\ call.ret = "raised"

FilterStep == flow'.cycle = flow.cycle + 1

\* C12: an attachment that has a composite record (same group, timestamp,
\* filename) or a legacy record (same group, filename) when the batch is
\* filtered is not in the batch handed to the download step, whether the record
\* is in the running process's memory or durable in the store.
NoRedownload ==
    [][FilterStep =>
        \A n \in 1..Len(flow'.batch) :
            LET att == flow'.batch[n]
            IN  /\ ~is_downloaded_chat(data, flow'.g, att.filename,
                                       OrEmpty(att.timestamp))
                /\ ~is_downloaded_chat(Loaded(file), flow'.g, att.filename,
                                       OrEmpty(att.timestamp))]_vars

\* a later process run scanned an attachment above the watermark that an
\* earlier run recorded under its composite key, and left it out of the batch
NoRedownloadWitness ==
    /\ crashes >= 1
    /\ flow.cycle >= 2
    /\ \E att \in flow.scanned :
         /\ Truthy(att.timestamp)
         /\ ~(Truthy(flow.watermark) /\ StrLe(att.timestamp, flow.watermark))
         /\ HasKey(data, _chat_key(flow.g, att.filename, att.timestamp))
         /\ HasKey(Loaded(flow.store_before),
                   _chat_key(flow.g, att.filename, att.timestamp))
         /\ \A n \in 1..Len(flow.new_attachments) : flow.new_attachments[n] # att

\* the attachments of the last scan that the filter would select now
SelectedNow ==
    {att \in flow.scanned :
        IsNew(data, flow.g, get_watermark(data, flow.g), att)}

\* the attachments the filter selected in the last cycle
SelectedThen == {flow.new_attachments[n] : n \in 1..Len(flow.new_attachments)}

\* C13 (as claimed): after a batch with zero successes, the next cycle, given
\* the same scan result, selects the same set of attachments as new as the
\* failed cycle did.
FailedBatchRetried ==
    (flow.stage = "done" /\ flow.batch # <<>> /\ Successes(flow) = {})
        => SelectedNow = SelectedThen

-----------------------------------------------------------------------------
(* Properties of the records of one process *)

\* a step that enters mark_downloaded, mark_downloaded_chat or set_watermark
MutationStep == pc = "idle" /\ now' = now + 1

\* the key written by the call recorded in c
WrittenKey(c) ==
    CASE c.op = "mark_downloaded" -> _key(c.g, c.f)
      [] c.op = "mark_downloaded_chat" -> _chat_key(c.g, c.f, c.t)
      [] c.op = "set_watermark" -> _watermark_key(c.g)
      [] OTHER -> None

\* the items of the dict that are dedup records
DedupItems(d) == SelectSeq(d, LAMBDA item : "dest" \in DOMAIN item.v)

\* C14 (as claimed): once a dedup record exists under a key, no later
\* mark_downloaded, mark_downloaded_chat or set_watermark, whatever its
\* arguments, changes the record's contents.
RecordsNeverMutated ==
    [][\A n \in 1..Len(DedupItems(data)) :
        LET item == DedupItems(data)[n]
        IN  HasKey(data', item.k) => Get(data', item.k) = item.v]_vars

\* C14 (amended): a dedup record is left as it is by every operation that
\* writes another key, and is replaced by the new record (new recorded
\* timestamp) when a later mark call writes its key again.
RecordsChangeOnlyByOwnKey ==
    [][\A n \in 1..Len(DedupItems(data)) :
        LET item == DedupItems(data)[n]
        IN  HasKey(data', item.k) =>
                IF MutationStep /\ WrittenKey(call') = item.k
                THEN /\ Get(data', item.k).timestamp = now
                     /\ Get(data', item.k).dest = call'.d
                     /\ Get(data', item.k) # item.v
                ELSE Get(data', item.k) = item.v]_vars

\* a stored record was written again under its key by a later mark_downloaded
RecordsChangeWitness ==
    /\ pc = "idle"
    /\ call.op = "mark_downloaded"
    /\ HasKey(Loaded(call.before), _key(call.g, call.f))
    /\ Get(Loaded(call.before), _key(call.g, call.f)).timestamp < now - 1
    /\ Get(data, _key(call.g, call.f)).timestamp = now - 1

\* C15: within one process the set of ledger keys only grows, so an
\* is_downloaded or is_downloaded_chat answer that is true stays true.
KeysOnlyGrow ==
    [][crashes' = crashes =>
        /\ \A n \in 1..Len(data) : HasKey(data', data[n].k)
        /\ \A g \in Groups, f \in Files :
             /\ is_downloaded(data, g, f) => is_downloaded(data', g, f)
             /\ \A t \in AnyTimestamp :
                  is_downloaded_chat(data, g, f, t)
                      => is_downloaded_chat(data', g, f, t)]_vars

\* is_downloaded is still true for the first record after a later call wrote
\* a second key
KeysOnlyGrowWitness ==
    /\ Len(data) >= 2
    /\ WrittenKey(call) = data[2].k
    /\ \E g \in Groups, f \in Files :
         data[1].k = _key(g, f) /\ is_downloaded(data, g, f)

-----------------------------------------------------------------------------
(* The tracker called with arbitrary strings: group names come from the
   configuration file and filenames from the chat, and neither is checked
   before it is put into a key.  The runs of this specification have no I/O
   failure and no crash. *)

\* the reserved prefix without its delimiter, used as a group name
WatermarkWord == SubSeq(_WATERMARK_PREFIX, 1, Len(_WATERMARK_PREFIX) - Len(DELIM))

KeyGroups == {<<"A">>, <<"B">>, WatermarkWord}

KeyFiles == {<<"a">>, <<"A">>, <<"9">> \o DELIM \o <<"a">>}

KeyTimestamps == {Empty, <<"9">>, <<"1", ":", "0">>}

KeyInit ==
    /\ pc = "start"
    /\ data = <<>>
    /\ file = Absent
    /\ tmp = Absent
    /\ now = 1
    /\ call = NoCall
    /\ faults = MaxFaults
    /\ crashes = MaxCrashes
    /\ called = {}
    /\ flow = NoFlow

key_mark_downloaded ==
    \E g \in KeyGroups, f \in KeyFiles, d \in Dests :
        now <= MaxOps /\ mark_downloaded(g, f, d) /\ UNCHANGED flow

key_mark_downloaded_chat ==
    \E g \in KeyGroups, f \in KeyFiles, t \in KeyTimestamps, d \in Dests :
        now <= MaxOps /\ mark_downloaded_chat(g, f, t, d) /\ UNCHANGED flow

key_set_watermark ==
    \E g \in KeyGroups, t \in KeyTimestamps \ {Empty} :
        now <= MaxOps /\ set_watermark(g, t) /\ UNCHANGED flow

KeyNext ==
    \/ _load
    \/ key_mark_downloaded
    \/ key_mark_downloaded_chat
    \/ key_set_watermark
    \/ save_open
    \/ save_write
    \/ save_replace

KeySpec == KeyInit /\ [][KeyNext]_vars

-----------------------------------------------------------------------------
(* Properties of the keys *)

NoColon(s) == \A i \in 1..Len(s) : s[i] # ":"

\* group names without ":" other than the reserved word; filenames without ":"
PlainGroups == {g \in KeyGroups : NoColon(g) /\ g # WatermarkWord}

PlainFiles == {f \in KeyFiles : NoColon(f)}

\* no legacy, composite and watermark key built from these names coincide
KeysDisjoint(GS, FS) ==
    \A g1, g2, g3 \in GS, f1, f2 \in FS, t \in KeyTimestamps :
        /\ _key(g1, f1) # _chat_key(g2, f2, t)
        /\ _key(g1, f1) # _watermark_key(g3)
        /\ _chat_key(g2, f2, t) # _watermark_key(g3)

\* every is_downloaded and is_downloaded_chat answer over these names
Answers(d, GS, FS) ==
    [g \in GS, f \in FS |->
        <<is_downloaded(d, g, f),
          [t \in KeyTimestamps |-> is_downloaded_chat(d, g, f, t)]>>]

\* a mark call leaves every watermark of GS alone; set_watermark leaves every
\* lookup answer over GS and FS and every other group's watermark alone
KeyFrame(GS, FS) ==
    IF call'.op = "set_watermark"
    THEN /\ Answers(data', GS, FS) = Answers(data, GS, FS)
         /\ \A g \in GS \ {call'.g} :
              get_watermark(data', g) = get_watermark(data, g)
    ELSE \A g \in GS : get_watermark(data', g) = get_watermark(data, g)

\* C16 (as claimed): for all group names, filenames and timestamps the three
\* key shapes never coincide, so no mark call changes the watermark of any
\* group, and set_watermark changes no is_downloaded / is_downloaded_chat
\* answer and no other group's watermark.
NamespacesDisjoint ==
    [][MutationStep => KeyFrame(KeyGroups, KeyFiles)]_vars

\* C16 (amended): the same, for group names and filenames without ":" and
\* group names other than "__watermark__", whatever the timestamps.
PlainNamespacesDisjoint ==
    [][/\ KeysDisjoint(PlainGroups, PlainFiles)
       /\ (MutationStep /\ call'.g \in PlainGroups
                /\ call'.f \in PlainFiles \cup {Empty})
            => KeyFrame(PlainGroups, PlainFiles)]_vars

\* set_watermark for a plain group ran while the dict held a dedup record of
\* a plain group and a plain filename
PlainNamespacesWitness ==
    /\ pc = "idle"
    /\ call.op = "set_watermark"
    /\ call.g \in PlainGroups
    /\ get_watermark(data, call.g) = call.t
    /\ \E g \in PlainGroups, f \in PlainFiles : is_downloaded(data, g, f)

\* C17: get_watermark of a group is None until set_watermark is called for
\* it, and afterwards is the timestamp of the most recent set_watermark for
\* that group, also when that timestamp is smaller than the stored one; there
\* is never more than one watermark record per group.
WatermarkReadWrite ==
    [][/\ pc = "start" => \A g \in Groups : get_watermark(data, g) = None
       /\ \A g \in Groups : Len(WatermarkItems(data', g)) <= 1
       /\ IF MutationStep /\ call'.op = "set_watermark"
          THEN /\ get_watermark(data', call'.g) = call'.t
               /\ \A g \in Groups \ {call'.g} :
                    get_watermark(data', g) = get_watermark(data, g)
          ELSE IF pc = "start"
          THEN \A g \in Groups :
                    get_watermark(data', g) = get_watermark(Loaded(file), g)
          ELSE IF crashes' # crashes
          THEN \A g \in Groups : get_watermark(data', g) = None
          ELSE \A g \in Groups :
                    get_watermark(data', g) = get_watermark(data, g)]_vars

\* set_watermark lowered a stored watermark
WatermarkReadWriteWitness ==
    /\ pc = "idle"
    /\ call.op = "set_watermark"
    /\ get_watermark(data, call.g) = call.t
    /\ get_watermark(Loaded(call.before), call.g) # None
    /\ get_watermark(Loaded(call.before), call.g) # call.t
    /\ StrLe(call.t, get_watermark(Loaded(call.before), call.g))

\* every key of the dict was built from plain names
AllPlainKeys(d) ==
    \A n \in 1..Len(d) :
        \E g \in PlainGroups :
            \/ d[n].k = _watermark_key(g)
            \/ \E f \in PlainFiles :
                 \/ d[n].k = _key(g, f)
                 \/ \E t \in KeyTimestamps : d[n].k = _chat_key(g, f, t)

\* the filename of each dedup key of group g, in the order of the dict
RECURSIVE Listing(_, _)
Listing(d, g) ==
    IF d = <<>>
    THEN <<>>
    ELSE LET k == Head(d).k
             legacy == {f \in PlainFiles : k = _key(g, f)}
             composite == {f \in PlainFiles :
                              \E t \in KeyTimestamps : k = _chat_key(g, f, t)}
         IN  IF legacy # {}
             THEN <<CHOOSE f \in legacy : TRUE>> \o Listing(Tail(d), g)
             ELSE IF composite # {}
             THEN <<CHOOSE f \in composite : TRUE>> \o Listing(Tail(d), g)
             ELSE Listing(Tail(d), g)

\* C18: get_downloaded_for_group(g) has exactly one entry per ledger key that
\* is a dedup record of group g, the filename of that key, and no entry for a
\* watermark record or a record of another group; a filename recorded under a
\* legacy and a composite key is listed twice.
ListingExact ==
    AllPlainKeys(data) =>
        \A g \in PlainGroups : get_downloaded_for_group(data, g) = Listing(data, g)

\* one filename recorded under a legacy and a composite key is listed twice
ListingExactWitness ==
    /\ AllPlainKeys(data)
    /\ \E g \in PlainGroups, f \in PlainFiles :
         /\ is_downloaded(data, g, f)
         /\ \E t \in KeyTimestamps \ {Empty} :
              HasKey(data, _chat_key(g, f, t))
         /\ get_downloaded_for_group(data, g) = <<f, f>>

-----------------------------------------------------------------------------
(* Properties of the lookups *)

LookupOps ==
    {"is_downloaded", "is_downloaded_chat", "get_watermark",
     "get_downloaded_for_group"}

\* C19: is_downloaded, is_downloaded_chat, get_watermark and
\* get_downloaded_for_group leave the in-memory mapping, the backing store and
\* the temp file unchanged, for all arguments and in every state.
LookupsPure ==
    [][call'.op \in LookupOps => data' = data /\ file' = file /\ tmp' = tmp]_vars

\* get_watermark returned a watermark while a store and a left-over temp file
\* existed
LookupsPureWitness ==
    /\ call.op = "get_watermark"
    /\ call.out # <<None>>
    /\ file.exists
    /\ tmp.exists

-----------------------------------------------------------------------------
(* Durability *)

MutationOps == {"mark_downloaded", "mark_downloaded_chat", "set_watermark"}

\* C20: right after a mark_downloaded, mark_downloaded_chat or set_watermark
\* whose persist succeeded, the mapping in the backing store equals the whole
\* in-memory mapping, earlier mutations whose persist failed included; in a
\* run without failures every mutation ends with its persist succeeded.
DurableBeforeNextOperation ==
    (pc = "idle" /\ call.op \in MutationOps) =>
        /\ call.persisted => (file.exists /\ Loaded(file) = data)
        /\ faults = 0 => call.persisted

\* a persist succeeded after the persist of an earlier mutation of the same
\* process had failed, and the store holds both entries
DurableBeforeNextOperationWitness ==
    /\ pc = "idle"
    /\ call.op \in MutationOps
    /\ call.persisted
    /\ faults >= 1
    /\ crashes = 0
    /\ Len(data) >= 2
    /\ Loaded(call.before) = <<>>
    /\ Loaded(file) = data

-----------------------------------------------------------------------------
(* Properties of the scanner and of run_claude._process_group *)

\* an entry with a filename and usable coordinates
WellFormed(item) == item.object /\ item.filename # None /\ item.x # None

\* the well-formed entries of a reply, as find_downloads would return them
WellFormedResults(files) ==
    LET kept == SelectSeq(files, WellFormed)
    IN  [n \in 1..Len(kept) |-> [filename |-> kept[n].filename, x |-> kept[n].x]]

\* C21 (as claimed): a scanned candidate that lacks a filename is skipped, not
\* returned as an attachment to act upon, and the remaining well-formed
\* candidates of the same scan are still returned.
MalformedSkipped ==
    (IsClaude(flow) /\ flow.raw # <<>>) =>
        /\ flow.stage # "raised"
        /\ flow.downloads = WellFormedResults(flow.raw)

-----------------------------------------------------------------------------
(* Memory and store after a failed persist *)

MarkOps == {"mark_downloaded", "mark_downloaded_chat"}

\* the lookup that answers for the attachment call c marked
Recorded(d, c) ==
    IF c.op = "mark_downloaded"
    THEN is_downloaded(d, c.g, c.f)
    ELSE is_downloaded_chat(d, c.g, c.f, c.t)

\* C22 (as claimed): after a mark_downloaded or mark_downloaded_chat whose
\* persist failed, the process reports the attachment as downloaded and a
\* tracker freshly loaded from the backing store reports it as not downloaded.
FailedPersistDiverges ==
    (pc = "idle" /\ call.op \in MarkOps /\ call.failed # "none") =>
        /\ Recorded(data, call)
        /\ ~Recorded(Loaded(file), call)

\* C22 (amended): after such a call the process reports the attachment as
\* downloaded, and a freshly loaded tracker answers as one loaded before the
\* call would have: not downloaded, unless the store already held a record
\* that answers for the attachment.
FailedPersistMemoryOnly ==
    (pc = "idle" /\ call.op \in MarkOps /\ call.failed # "none") =>
        /\ Recorded(data, call)
        /\ Recorded(Loaded(file), call) <=> Recorded(Loaded(call.before), call)

\* the persist of a chat mark failed while the store holds an earlier record
\* of another attachment: memory reports the new one, the store does not
FailedPersistMemoryOnlyWitness ==
    /\ pc = "idle"
    /\ call.op = "mark_downloaded_chat"
    /\ call.failed \in {"open", "write", "replace"}
    /\ Len(Loaded(file)) >= 1
    /\ Recorded(data, call)
    /\ ~Recorded(Loaded(file), call)

-----------------------------------------------------------------------------
(* The watermark over the runs of _process_group *)

\* _process_group calls set_watermark
WatermarkWrite == flow.stage = "loop" /\ flow'.stage = "setwm"

SameProcess == pc # "start" /\ pc' # "start"

\* C23: every watermark write of _process_group stores a value strictly
\* greater than the watermark read at the start of that run, and happens only
\* when an attachment of the batch that carries a timestamp was downloaded;
\* within a process the watermark of a group changes by such writes alone
\* and never decreases.
WatermarkNeverDecreases ==
    [][/\ WatermarkWrite =>
            /\ call'.g = flow.g
            /\ flow.watermark = get_watermark(data, flow.g)
            /\ \/ flow.watermark = None
               \/ StrLe(flow.watermark, call'.t) /\ flow.watermark # call'.t
            /\ \E n \in 1..Len(flow.res) :
                   /\ flow.res[n] = "true"
                   /\ Truthy(flow.batch[n].timestamp)
       /\ SameProcess =>
            \A g \in PolledGroups :
                LET old == get_watermark(data, g)
                    new == get_watermark(data', g)
                IN  /\ new # old => (WatermarkWrite /\ g = flow.g)
                    /\ old # None => (new # None /\ StrLe(old, new))
      ]_vars

\* a later run of _process_group raised a watermark that an earlier run had set
WatermarkNeverDecreasesWitness ==
    /\ flow.stage = "setwm"
    /\ flow.watermark # None
    /\ get_watermark(data, flow.g) # flow.watermark
    /\ StrLe(flow.watermark, get_watermark(data, flow.g))

-----------------------------------------------------------------------------
(* Fault isolation inside a batch *)

\* C27: a failed or raising attempt does not stop the batch: while the loop
\* runs every attachment before the current one has its outcome and the
\* newest timestamp is the greatest one among the successes so far; when the
\* loop is over every attachment of the batch was attempted, and the
\* watermark written is the greatest timestamp among the successes.
AttachmentFaultIsolated ==
    /\ flow.stage \in {"loop", "marking"} =>
           /\ Len(flow.res) = flow.i - 1
           /\ flow.newest_downloaded_ts =
                  IF SuccessTimestamps(flow) = {}
                  THEN None
                  ELSE LexMax(SuccessTimestamps(flow))
    /\ flow.stage \in {"setwm", "done"} => Len(flow.res) = Len(flow.batch)
    /\ flow.stage = "setwm" =>
           /\ call.op = "set_watermark"
           /\ call.g = flow.g
           /\ call.t = LexMax(SuccessTimestamps(flow))

\* the first attempt of a batch failed, the second one succeeded and the
\* watermark is being written from it
AttachmentFaultIsolatedWitness ==
    /\ flow.stage = "setwm"
    /\ Len(flow.batch) = 2
    /\ flow.res[1] # "true"
    /\ flow.res[2] = "true"
    /\ call.t = flow.batch[2].timestamp

-----------------------------------------------------------------------------
(* Attachments left behind by a batch *)

-----------------------------------------------------------------------------
(* The boundary of the watermark filter *)

\* the step of main._process_group that scans and filters a batch
MainFilterStep == FilterStep /\ ~IsClaude(flow')

\* C24: when _process_group filters a scan, an attachment with a record
\* (looked up with the empty string for a missing timestamp) is not selected;
\* an attachment without a record is left out exactly when a watermark
\* exists, the attachment has a timestamp and timestamp <= watermark,
\* equality included; an attachment without a timestamp is selected exactly
\* when the lookup with the empty timestamp finds no record.
WatermarkFilterBoundary ==
    [][MainFilterStep =>
        LET watermark == get_watermark(data, flow'.g)
        IN  \A att \in flow'.scanned :
                LET recorded ==
                        is_downloaded_chat(data, flow'.g, att.filename,
                            IF att.timestamp = None THEN Empty ELSE att.timestamp)
                    selected == att \in Range(flow'.new_attachments)
                IN  /\ recorded => ~selected
                    /\ ~recorded =>
                           (~selected <=> /\ watermark # None
                                          /\ att.timestamp # None
                                          /\ StrLe(att.timestamp, watermark))
                    /\ att.timestamp = None =>
                           (selected <=> ~is_downloaded_chat(data, flow'.g,
                                                             att.filename, Empty))
      ]_vars

\* a scan held an unrecorded attachment stamped exactly with the watermark,
\* which was left out, and an unrecorded one without a timestamp, which was
\* selected
WatermarkFilterBoundaryWitness ==
    /\ ~IsClaude(flow)
    /\ flow.stage = "loop"
    /\ flow.i = 1
    /\ flow.watermark # None
    /\ \E att \in flow.scanned :
           /\ att.timestamp = flow.watermark
           /\ ~is_downloaded_chat(data, flow.g, att.filename, att.timestamp)
           /\ att \notin Range(flow.new_attachments)
    /\ \E att \in flow.scanned :
           /\ att.timestamp = None
           /\ att \in Range(flow.new_attachments)

-----------------------------------------------------------------------------
(* Records and the steps of an attempt *)

\* a step of a running process that adds or changes a dedup record
RecordStep == pc # "start" /\ DedupItems(data') # DedupItems(data)

\* every dedup record of d' except the one under key is a record of d
OnlyKeyWritten(key) ==
    \A item \in Range(DedupItems(data')) :
        item.k # key => item \in Range(DedupItems(data))

\* a step that ends an attempt without success
FailureStep ==
    /\ Len(flow'.res) = Len(flow.res) + 1
    /\ flow'.res[Len(flow'.res)] # "true"

-----------------------------------------------------------------------------
(* The safety cap *)

\* C29: in one pass over a group the download attempts never exceed
\* max_downloads_per_group: in main._process_group the batch and the attempts
\* made from it, in run_claude._process_group the clicks summed over the
\* scroll passes.
SafetyCap ==
    IF IsClaude(flow)
    THEN /\ flow.total_clicks <= MaxDownloads
         /\ Cardinality(flow.clicked) <= flow.total_clicks
         /\ Len(flow.new_files) <= flow.total_clicks
    ELSE /\ Len(flow.batch) <= MaxDownloads
         /\ Len(flow.res) <= Len(flow.batch)
         /\ flow.i <= Len(flow.batch) + 1

\* a pass of run_claude.py that reached the cap and left a further candidate,
\* whose coordinates it had not seen before, without a click
SafetyCapWitness ==
    /\ IsClaude(flow)
    /\ flow.total_clicks = MaxDownloads
    /\ Cardinality(flow.seen_coords) > flow.total_clicks
    /\ \E n \in 1..Len(flow.downloads) :
           flow.downloads[n].filename \notin flow.already

-----------------------------------------------------------------------------
(* Fault isolation of groups and cycles *)

\* an exception that leaves a cycle is caught by the loop, which goes to
\* sleep; only Ctrl+C ends the loop
CycleIsolated ==
    /\ flow.stage = "exited" => flow.stopped_by = "KeyboardInterrupt"
    /\ flow.stage \in {"start", "sleep"} => Len(flow.cycles) = flow.cycle
    /\ flow.stage \in {"connect", "groups"} => Len(flow.cycles) = flow.cycle - 1

\* C28: in either program a cycle that entered the loop over
\* the groups processes every group, whether or not a group raised, and an
\* exception escaping a cycle does not end the loop.
GroupsAndCyclesIsolated ==
    /\ CycleIsolated
    /\ (flow.stage = "sleep" /\ flow.done # <<>>) => Len(flow.done) = Len(LoopGroups)

-----------------------------------------------------------------------------
(* Injectivity of the composite key *)

\* the (group, timestamp, filename) triples of the universe; none of their
\* fields contains the delimiter
Triples == ColonGroups \X ColonTimestamps \X ColonFiles

\* s neither begins nor ends with a colon
NoEdgeColon(s) == s = Empty \/ (s[1] # ":" /\ s[Len(s)] # ":")

EdgeFreeTriples ==
    {tr \in Triples : NoEdgeColon(tr[1]) /\ NoEdgeColon(tr[2]) /\ NoEdgeColon(tr[3])}

\* the triple marked by the call that is entered in this step
MarkedTriple == <<call'.g, call'.t, call'.f>>

\* marking a triple of TS changes the answer of is_downloaded_chat for no
\* other triple of TS
MarkTouchesOnlyItsTriple(TS) ==
    (MutationStep /\ call'.op = "mark_downloaded_chat" /\ MarkedTriple \in TS) =>
        \A tr \in TS \ {MarkedTriple} :
            is_downloaded_chat(data', tr[1], tr[3], tr[2])
                = is_downloaded_chat(data, tr[1], tr[3], tr[2])

\* C30 (as claimed): among triples none of whose fields contains "::",
\* marking one never makes is_downloaded_chat true for a different one.
CompositeKeyInjective == [][MarkTouchesOnlyItsTriple(Triples)]_vars

\* C30 (amended): among triples none of whose fields contains "::" or begins
\* or ends with a colon, two distinct triples never have the same composite
\* key, no composite key is the legacy key of a triple, and marking one
\* triple never makes is_downloaded_chat true for a different one.
EdgeFreeKeyInjective ==
    [][/\ MarkTouchesOnlyItsTriple(EdgeFreeTriples)
       /\ \A tr, other \in EdgeFreeTriples :
              /\ tr # other =>
                     _chat_key(tr[1], tr[3], tr[2]) # _chat_key(other[1], other[3], other[2])
              /\ _chat_key(tr[1], tr[3], tr[2]) # _key(other[1], other[3])
      ]_vars

\* the same file of the same group was marked at a timestamp holding a colon
\* and without a timestamp; it is not reported at a third timestamp
EdgeFreeKeyInjectiveWitness ==
    /\ pc = "idle"
    /\ call.op = "mark_downloaded_chat"
    /\ HasKey(data, _chat_key(<<"A">>, <<"a">>, <<"1", ":", "0">>))
    /\ HasKey(data, _chat_key(<<"A">>, <<"a">>, Empty))
    /\ ~is_downloaded_chat(data, <<"A">>, <<"a">>, <<"9">>)

-----------------------------------------------------------------------------
(* Relocation without overwriting *)

\* the step in which move_file_to_gdrive moves the file
MoveStep == IsFiles(flow) /\ flow.stage = "detected" /\ flow'.stage = "moved"

\* the step that enters mark_downloaded_chat after the move
MarkAfterMoveStep == IsFiles(flow) /\ flow.stage = "moved" /\ flow'.stage = "marking"

\* C31: the path move_file_to_gdrive moves to did not exist before the move
\* and every file of the destination directory is still there after it; the
\* path is the plain name when that was free, else name_k with the plain name
\* and every name_j, j < k, taken; the record written next holds exactly
\* that path as its destination.
CollisionSafeMove ==
    [][/\ MoveStep =>
            LET before == Paths(flow.gdrive)
                name == flow.src.name
            IN  /\ flow'.dest \notin before
                /\ flow.gdrive \subseteq flow'.gdrive
                /\ Paths(flow'.gdrive) = before \cup {flow'.dest}
                /\ \/ flow'.dest = name
                   \/ /\ name \in before
                      /\ \E k \in 1..(Cardinality(before) + 1) :
                             /\ flow'.dest = Candidate(name, k)
                             /\ \A j \in 1..(k - 1) : Candidate(name, j) \in before
       /\ MarkAfterMoveStep =>
            /\ flow.dest \in Paths(flow.gdrive)
            /\ call'.d = flow.dest
            /\ Get(data', WrittenKey(call')).dest = flow.dest
      ]_vars

\* a file named like two files of the destination directory was moved to
\* the first free numbered name, and a file with an extension got its number
\* before the extension; both paths are in the records
CollisionSafeMoveWitness ==
    /\ IsFiles(flow)
    /\ pc = "idle"
    /\ flow.stage = "loop"
    /\ \E e \in Range(DedupItems(data)) :
           e.v.dest \in {<<"a", "_", "2">>, <<"a", "_", "1", ".", "t">>}
    /\ \A e \in Range(DedupItems(data)) : e.v.dest \in Paths(flow.gdrive)
    /\ Len(flow.moved) >= 1

-----------------------------------------------------------------------------
(* Attribution of the moved file *)

\* C32: the file moved and recorded for an attachment of the batch is a
\* file that its own download wrote to the download directory, never one
\* left behind by an earlier attachment whose download was counted as failed.
FileOfOwnDownload ==
    IsFiles(flow) =>
        \A n \in 1..Len(flow.moved) : flow.moved[n].origin = flow.moved[n].att

-----------------------------------------------------------------------------
(* Two writers without a lock *)

\* the step in which instance n leaves tmp.replace with success / with an error
ReplaceDone(n) == flow.inst[n].pc = "replace" /\ flow'.inst[n].pc = "idle"

ReplaceFailed(n) == flow.inst[n].pc = "replace" /\ flow'.inst[n].pc = "except"

\* both instances are outside _save and their last persists succeeded
BothPersisted ==
    \A n \in Instances :
        /\ flow.inst[n].pc = "idle"
        /\ flow.inst[n].ret = "ok"
        /\ flow.inst[n].failed = "none"

\* C33: nothing orders the two instances: a successful persist puts the
\* shared temp file in place of the store whole, whatever the store or the
\* other instance's memory held, and a persist fails only when the other
\* instance took the temp file away or holds it open; so there are
\* interleavings that lose a record or fail a persist (the witness).
WholeStoreReplaced ==
    [][\A n \in Instances :
          /\ ReplaceDone(n) => (file' = tmp /\ ~tmp'.exists)
          /\ ReplaceFailed(n) =>
                 /\ file' = file
                 /\ \/ ~tmp.exists
                    \/ flow.platform = "windows" /\ HoldsTmp(flow.inst[Other(n)])
      ]_vars

\* both instances marked or set something and both persists succeeded, the
\* store is well formed, and a record one of them wrote is not in it
LostRecordWitness ==
    /\ IsTwo(flow)
    /\ BothPersisted
    /\ GoodStore(file)
    /\ \E n \in Instances :
           \E item \in Range(DedupItems(flow.inst[n].data)) :
               /\ item.v.timestamp >= 1
               /\ ~HasKey(Loaded(file), item.k)

====
